---------------------------- MODULE Spec2Model ----------------------------
(***************************************************************************)
(* Diagonal Sudoku solver (solution.py): the board tables, the three       *)
(* propagation strategies (eliminate, only_choice, naked_twins), the       *)
(* reducer (reduce_puzzle) and the depth-first search (search, solve).     *)
(*                                                                         *)
(* Representation.                                                         *)
(*  - A box 'A1' is the pair <<row, column>>, rows and columns numbered    *)
(*    from 1.  The board is BoxDim*BoxDim squares of BoxDim x BoxDim       *)
(*    boxes: the program's board is BoxDim = 3 (rows 'ABCDEFGHI', columns  *)
(*    '123456789'); the model is checked on the BoxDim = 2 board, which    *)
(*    has the same unit structure (rows, columns, squares, two diagonals). *)
(*    The literals of the program that encode the 9x9 size are written in  *)
(*    terms of the board: 81 is NumBoxes, 10 is N + 1, '123456789' is      *)
(*    digits.                                                              *)
(*  - A candidate string ('1379') is a set of digits.  Every string the    *)
(*    program builds is a subsequence of '123456789' without repetition    *)
(*    (grid2values starts from it or from one digit, str.replace(d, '')    *)
(*    and assignment of one digit are the only updates), so the string is  *)
(*    determined by its set of characters, len is Cardinality, and         *)
(*    iteration over the string is iteration in increasing digit order.    *)
(*  - A dict of values is a function on the boxes; its iteration order is  *)
(*    the insertion order of grid2values, i.e. the sequence boxes, and     *)
(*    dict(values) keeps it.                                               *)
(***************************************************************************)
EXTENDS Integers, Sequences, FiniteSets, TLC

\* Side of a square of the board (3 in the program).
BoxDim == 2

N == BoxDim * BoxDim

(***************************************************************************)
(* Board tables                                                            *)
(***************************************************************************)
rows == [i \in 1..N |-> i]

cols == [i \in 1..N |-> i]

\* the characters of '123456789', in string order
digits == [i \in 1..N |-> i]

Digits == {digits[i] : i \in 1..N}

\* cross(a, b) = [s+t for s in a for t in b]
cross(a, b) ==
    [k \in 1..(Len(a) * Len(b)) |->
        <<a[((k - 1) \div Len(b)) + 1], b[((k - 1) % Len(b)) + 1]>>]

boxes == cross(rows, cols)

BoxSet == {boxes[i] : i \in 1..Len(boxes)}

NumBoxes == Len(boxes)

\* 'ABC','DEF','GHI' and '123','456','789': the k-th group of BoxDim indices
band(k) == [i \in 1..BoxDim |-> (k - 1) * BoxDim + i]

row_units == [r \in 1..N |-> cross(<<rows[r]>>, cols)]

column_units == [c \in 1..N |-> cross(rows, <<cols[c]>>)]

square_units ==
    [k \in 1..N |->
        cross(band(((k - 1) \div BoxDim) + 1), band(((k - 1) % BoxDim) + 1))]

diagonal_units ==
    << [i \in 1..N |-> <<rows[i], cols[i]>>],
       [i \in 1..N |-> <<rows[i], cols[N + 1 - i]>>] >>

\* The unit list without the diagonal units (the classic board).
unitlist_classic == row_units \o column_units \o square_units

unitlist == row_units \o column_units \o square_units \o diagonal_units

SeqSet(s) == {s[i] : i \in 1..Len(s)}

\* The value f, computed once.  (TLC keeps a function constructor
\* unevaluated and evaluates it again at every application; a comparison
\* makes it build the function.)
Built(f) == IF f = f THEN f ELSE f

\* extract_units: for each box, the units that contain it
units ==
    Built([b \in BoxSet |-> {i \in 1..Len(unitlist) : b \in SeqSet(unitlist[i])}])

\* extract_peers: the other boxes of the units of a box
peers ==
    Built([b \in BoxSet |-> (UNION {SeqSet(unitlist[i]) : i \in units[b]}) \ {b}])

(***************************************************************************)
(* Strategies                                                              *)
(***************************************************************************)
len(s) == Cardinality(s)

\* number of boxes with a determined value
SolvedCount(values) == Cardinality({b \in BoxSet : len(values[b]) = 1})

HasEmpty(values) == \E b \in BoxSet : len(values[b]) = 0

\* The loop over the peers left after the first peer that held the digit
\* (a stray break): one box changes at most.
RemoveFromFirstPeer(values, k) ==
    LET holders == SelectSeq(boxes, LAMBDA b : b \in peers[k] /\ values[k] \subseteq values[b])
    IN  IF holders = <<>> THEN values
        ELSE [values EXCEPT ![holders[1]] = @ \ values[k]]

\* for peer in peers[k]: values[peer] = values[peer].replace(v, '')
RemoveFromPeers(values, k) ==
    Built([b \in BoxSet |->
              IF b \in peers[k] THEN values[b] \ values[k] ELSE values[b]])

\* The loop left at the first solved box: "return values" inside the "if".
RECURSIVE EliminateFirstIn(_, _, _)
EliminateFirstIn(values, order, i) ==
    IF i > Len(order) THEN values
    ELSE IF len(values[order[i]]) = 1
         THEN RemoveFromPeers(values, order[i])
         ELSE EliminateFirstIn(values, order, i + 1)

\* The eliminate loop, visiting the boxes in the sequence order from index i on.
\* The dict is updated in place, so a box visited later is tested on its
\* current value.
RECURSIVE EliminateIn(_, _, _)
EliminateIn(values, order, i) ==
    IF i > Len(order) THEN values
    ELSE IF len(values[order[i]]) = 1
         THEN EliminateIn(RemoveFromPeers(values, order[i]), order, i + 1)
         ELSE EliminateIn(values, order, i + 1)

eliminate(values) == EliminateIn(values, boxes, 1)

\* places_counter = [box for box in unit if digit in values[box]]
places_counter(values, unit, digit) ==
    SelectSeq(unit, LAMBDA box : digit \in values[box])

\* if len(places_counter) == 1
OnlyPlace(places) == Len(places) = 1

\* values[places_counter[0]] = digit
Assign(values, box, digit) == [values EXCEPT ![box] = {digit}]

\* The only_choice loops: units of ulist from index u on, and for each the
\* digits of dlist from index j on.
RECURSIVE OnlyChoiceIn(_, _, _, _, _)
OnlyChoiceIn(values, ulist, dlist, u, j) ==
    IF u > Len(ulist) THEN values
    ELSE IF j > Len(dlist) THEN OnlyChoiceIn(values, ulist, dlist, u + 1, 1)
    ELSE LET places == places_counter(values, ulist[u], dlist[j])
         IN  IF OnlyPlace(places)
             THEN OnlyChoiceIn(Assign(values, places[1], dlist[j]),
                               ulist, dlist, u, j + 1)
             ELSE OnlyChoiceIn(values, ulist, dlist, u, j + 1)

only_choice(values) == OnlyChoiceIn(values, unitlist, digits, 1, 1)

\* possible_twins = [(box, values[box]) for box in unit if len(values[box]) == 2]
possible_twins(values, unit) ==
    LET two == SelectSeq(unit, LAMBDA box : len(values[box]) = 2)
    IN  [k \in 1..Len(two) |-> <<two[k], values[two[k]]>>]

\* The pairs <<i, j>> of "for i in range(n): for j in range(i+1, n)", in
\* loop order, from <<i, j>> on.
RECURSIVE IndexPairs(_, _, _)
IndexPairs(n, i, j) ==
    IF i > n THEN <<>>
    ELSE IF j > n THEN IndexPairs(n, i + 1, i + 2)
    ELSE <<<<i, j>>>> \o IndexPairs(n, i, j + 1)

\* The pairs for which "possible_twins[i][1] == possible_twins[j][1]" holds,
\* in loop order: the two boxes and the two digits.  possible_twins is not
\* updated while the unit is processed, so the test of a pair does not
\* depend on the twins processed before it.
TwinsOf(pt) ==
    LET hit == SelectSeq(IndexPairs(Len(pt), 1, 2),
                         LAMBDA p : pt[p[1]][2] = pt[p[2]][2])
    IN  [k \in 1..Len(hit) |->
            [a |-> pt[hit[k][1]][1], b |-> pt[hit[k][2]][1],
             digits |-> pt[hit[k][1]][2]]]

\* The removal with the twin boxes not left out.
TwinEliminateAll(values, unit, twin) ==
    Built([box \in BoxSet |->
              IF box \in SeqSet(unit)
              THEN values[box] \ twin.digits
              ELSE values[box]])

\* for cell in unit, other than the twin boxes: for digit in the twin's
\* value: values[cell] = values[cell].replace(digit, '')
TwinEliminate(values, unit, twin) ==
    Built([box \in BoxSet |->
              IF box \in SeqSet(unit) /\ box \notin {twin.a, twin.b}
              THEN values[box] \ twin.digits
              ELSE values[box]])

\* The first unit from index i on in which the scan finds a twin (the
\* iterations of "for unit in unitlist" before it change nothing), or
\* Len(unitlist) + 1.
RECURSIVE NextTwinUnit(_, _)
NextTwinUnit(values, i) ==
    IF i > Len(unitlist) THEN i
    ELSE IF TwinsOf(possible_twins(values, unitlist[i])) # <<>> THEN i
    ELSE NextTwinUnit(values, i + 1)

\* One pass of the loop of reduce_puzzle: the eliminate strategy, then the
\* only choice strategy (the same statements as eliminate and only_choice).
ReducePass(values) == only_choice(eliminate(values))

\* The end of a pass without the sanity check.
PassOutcomeUnchecked(values, after) ==
    IF SolvedCount(values) = SolvedCount(after) THEN "stalled" ELSE "loop"

\* The end of a pass with <= for == in the test for a stalled pass.
PassOutcomeStalledEarly(values, after) ==
    IF HasEmpty(after) THEN "False"
    ELSE IF SolvedCount(values) <= SolvedCount(after) THEN "stalled"
    ELSE "loop"

\* What the loop does after a pass that took `values` to `after`: return
\* False (a box has no value left), leave the loop ("stalled") or run
\* another pass ("loop").
PassOutcome(values, after) ==
    IF HasEmpty(after) THEN "False"
    ELSE IF SolvedCount(values) = SolvedCount(after) THEN "stalled"
    ELSE "loop"

\* Return values: a dict, or False.
Fail == [ok |-> FALSE, values |-> <<>>]

Ok(values) == [ok |-> TRUE, values |-> values]

RECURSIVE reduce_puzzle(_)
reduce_puzzle(values) ==
    LET after == ReducePass(values)
        outcome == PassOutcome(values, after)
    IN  IF outcome = "False" THEN Fail
        ELSE IF outcome = "stalled" THEN Ok(after)
        ELSE reduce_puzzle(after)

\* The scan of search for the most promising box: the first box, in dict
\* order from index i on, whose number of choices is not 1 and is below
\* every earlier one (min_length starts at 10 = N + 1).
RECURSIVE MinBoxFrom(_, _, _, _)
MinBoxFrom(values, i, min_length, min_box) ==
    IF i > Len(boxes) THEN min_box
    ELSE IF len(values[boxes[i]]) # 1 /\ len(values[boxes[i]]) < min_length
         THEN MinBoxFrom(values, i + 1, len(values[boxes[i]]), boxes[i])
         ELSE MinBoxFrom(values, i + 1, min_length, min_box)

None == <<>>

MinBox(values) == MinBoxFrom(values, 1, N + 1, None)

\* if solved_values == 81
IsSolved(values) == SolvedCount(values) = NumBoxes

\* grid2values: '.' (written 0) gives every digit, a digit gives itself
grid2values(grid) ==
    Built([b \in BoxSet |->
              LET i == CHOOSE k \in 1..Len(boxes) : boxes[k] = b
              IN  IF grid[i] = 0 THEN Digits ELSE {grid[i]}])

(***************************************************************************)
(* Inputs                                                                  *)
(***************************************************************************)
\* Most givens of a grid handed to solve.
MaxGivens == 2

\* The grids with at most k givens (0 is the '.' of an unknown box).
GridsUpTo(k) ==
    UNION { { [i \in 1..NumBoxes |-> IF i \in S THEN f[i] ELSE 0] : f \in [S -> Digits] }
            : S \in {T \in SUBSET (1..NumBoxes) : Cardinality(T) <= k} }

Grids == GridsUpTo(MaxGivens)

\* Candidate sets of narrowed boxes are drawn from the first PaletteDigits
\* digits: one digit, two digits, or every digit of the board.
PaletteDigits == 3

Palette ==
    {S \in SUBSET {digits[i] : i \in 1..PaletteDigits} : len(S) \in {1, 2}}
        \cup {Digits}

\* The dicts in which the boxes of the sequence w have a candidate set of
\* the palette and every other box has every digit.
NarrowedAt(w) ==
    { Built([b \in BoxSet |->
                IF \E i \in 1..Len(w) : w[i] = b
                THEN f[CHOOSE i \in 1..Len(w) : w[i] = b]
                ELSE Digits])
      : f \in [1..Len(w) -> Palette] }

\* Dicts handed to search directly: A1, A2, C4 and D3 narrowed.  (On this
\* board reduce_puzzle alone solves every grid with one solution; among
\* these dicts are puzzles with one solution that need the search.)
SearchBoxes == << <<1, 1>>, <<1, 2>>, <<3, 4>>, <<4, 3>> >>

SearchInputs == {grid2values(grid) : grid \in Grids} \cup NarrowedAt(SearchBoxes)

\* Dicts handed to a strategy or to reduce_puzzle: the dicts of the grids,
\* and the dicts with the first MaxNarrow boxes narrowed.
MaxNarrow == 5

StrategyInputs ==
    {grid2values(grid) : grid \in Grids} \cup NarrowedAt(SubSeq(boxes, 1, MaxNarrow))

(***************************************************************************)
(* State                                                                   *)
(***************************************************************************)
VARIABLES
    input,      \* the dict the operation under study was called with
    values,     \* the dict the running function works on (updated in place)
    pc,         \* where the running function is
    ret,        \* the value the last finished call returned
    stack,      \* search: the suspended calls, the root first; each holds its
                \*   values, min_box, the choices not tried yet, and its argument
    arg,        \* search: the dict the running call was called with
    called,     \* search: the strategies the running call has invoked
    order,      \* search: "string" (the choices are tried in string order) or
                \*   "any"; orders: the visiting order under comparison
    other,      \* eliminate: the dict before the last call; orders: the dict
                \*   iterated in the visiting order `order`
    passes,     \* reduce_puzzle: passes of the loop done; eliminate: calls done
    before,     \* reduce_puzzle: solved_values_before of the last pass
    unit_i,     \* naked_twins: index in unitlist of the unit of the outer loop
    twins,      \* naked_twins: the twins found in that unit and not yet processed
    last        \* naked_twins: the unit and the twin processed by the last step;
                \*   orders: the latest results in which the two orders differed

vars == <<input, values, pc, ret, stack, arg, called, order, other, passes,
          before, unit_i, twins, last>>

searchVars == <<stack, arg, called>>

orderVars == <<order, other>>

reduceVars == <<passes, before>>

twinVars == <<unit_i, twins, last>>

(***************************************************************************)
(* solve and search                                                        *)
(***************************************************************************)
\* solve(grid): values = grid2values(grid), then search(values); or
\* search(values) on a dict.
InitSolve ==
    /\ input \in SearchInputs
    /\ values = input
    /\ arg = input
    /\ pc = "reduce"
    /\ ret = Fail
    /\ stack = <<>>
    /\ called = {}
    /\ order \in {"string", "any"}
    /\ other = <<>>
    /\ passes = 0
    /\ before = 0
    /\ unit_i = 0
    /\ twins = <<>>
    /\ last = <<>>

Top == stack[Len(stack)]

Pop == SubSeq(stack, 1, Len(stack) - 1)

\* values = reduce_puzzle(values); if not values: return False
SearchReduce ==
    /\ pc = "reduce"
    /\ called' = called \cup {"reduce_puzzle"}
    /\ \E r \in {reduce_puzzle(values)} :
           IF r.ok
           THEN /\ values' = r.values
                /\ pc' = "select"
                /\ ret' = ret
           ELSE /\ ret' = Fail
                /\ pc' = "return"
                /\ values' = values
    /\ UNCHANGED <<input, stack, arg, orderVars, reduceVars, twinVars>>

\* The scan for the most promising box, the test for a solved puzzle, and
\* the entry of the loop over the choices of min_box.
SearchSelect ==
    /\ pc = "select"
    /\ IF IsSolved(values)
       THEN /\ ret' = Ok(values)
            /\ pc' = "return"
            /\ stack' = stack
       ELSE /\ stack' = Append(stack, [values |-> values,
                                       min_box |-> MinBox(values),
                                       choices |-> values[MinBox(values)],
                                       arg |-> arg,
                                       called |-> called])
            /\ pc' = "branch"
            /\ ret' = ret
    /\ UNCHANGED <<input, values, arg, called, orderVars, reduceVars, twinVars>>

Min(S) == CHOOSE x \in S : \A y \in S : x <= y

\* The choices the loop may take next: the first in string order; under
\* order = "any", whichever is left.
NextChoices(choices) ==
    IF order = "string" THEN {Min(choices)} ELSE choices

\* "return sol" without the test: the first child's result is returned.
ReturnsChildUntested(sol) == TRUE

\* After a child returned `sol`: its caller returns it when it is a
\* solution ("if sol: return sol"), and goes on with the loop otherwise.
ReturnsChild(sol) == sol.ok

\* One iteration of "for choice in choices": copy the dict, assign the
\* choice to min_box and call search on the copy.
SearchTry ==
    /\ pc = "branch"
    /\ Top.choices # {}
    /\ \E choice \in NextChoices(Top.choices) :
        /\ stack' = [stack EXCEPT ![Len(stack)].choices = @ \ {choice},
                                  ![Len(stack)].called = @ \cup {"search"}]
        /\ values' = [Top.values EXCEPT ![Top.min_box] = {choice}]
        /\ arg' = [Top.values EXCEPT ![Top.min_box] = {choice}]
    /\ called' = {}
    /\ pc' = "reduce"
    /\ UNCHANGED <<input, ret, orderVars, reduceVars, twinVars>>

\* The loop is over and no choice gave a solution: return False.
SearchExhausted ==
    /\ pc = "branch"
    /\ Top.choices = {}
    /\ ret' = Fail
    /\ pc' = "return"
    /\ arg' = Top.arg
    /\ values' = Top.values
    /\ called' = Top.called
    /\ stack' = Pop
    /\ UNCHANGED <<input, orderVars, reduceVars, twinVars>>

\* A call returns to its caller, which returns the solution or goes on with
\* its loop; the root call returns to solve.
SearchReturn ==
    /\ pc = "return"
    /\ IF stack = <<>>
       THEN /\ pc' = "done"
            /\ UNCHANGED <<stack, arg, values, called>>
       ELSE /\ arg' = Top.arg
            /\ values' = Top.values
            /\ called' = Top.called
            /\ IF ReturnsChild(ret)
               THEN pc' = "return" /\ stack' = Pop
               ELSE pc' = "branch" /\ stack' = stack
    /\ UNCHANGED <<input, ret, orderVars, reduceVars, twinVars>>

NextSolve ==
    \/ SearchReduce
    \/ SearchSelect
    \/ SearchTry
    \/ SearchExhausted
    \/ SearchReturn

SpecSolve == InitSolve /\ [][NextSolve]_vars

(***************************************************************************)
(* reduce_puzzle, pass by pass                                             *)
(***************************************************************************)
InitReduce ==
    /\ input \in StrategyInputs
    /\ values = input
    /\ pc = "loop"
    /\ ret = Fail
    /\ passes = 0
    /\ before = 0
    /\ stack = <<>>
    /\ arg = <<>>
    /\ called = {}
    /\ order = <<>>
    /\ other = <<>>
    /\ unit_i = 0
    /\ twins = <<>>
    /\ last = <<>>

\* One pass of "while not stalled": count, eliminate, only choice, count,
\* compare, sanity check.  The dict is updated in place whatever is returned.
ReducePassStep ==
    /\ pc = "loop"
    /\ \E after \in {ReducePass(values)} :
        /\ values' = after
        /\ LET outcome == PassOutcome(values, after)
           IN  /\ pc' = IF outcome = "loop" THEN "loop" ELSE "done"
               /\ ret' = IF outcome = "stalled" THEN Ok(after) ELSE Fail
    /\ before' = SolvedCount(values)
    /\ passes' = passes + 1
    /\ UNCHANGED <<input, searchVars, orderVars, twinVars>>

NextReduce == ReducePassStep

\* A step of the loop: ReducePassStep is enabled exactly when pc = "loop",
\* and each of its steps adds one to passes.
LoopRuns == pc = "loop" /\ passes' = passes + 1

\* The loop is sequential code: a pass that can run does run.
SpecReduce == InitReduce /\ [][NextReduce]_vars /\ WF_passes(LoopRuns)

(***************************************************************************)
(* eliminate, called twice in succession                                   *)
(***************************************************************************)
InitEliminate ==
    /\ input \in StrategyInputs
    /\ values = input
    /\ other = input
    /\ pc = "call"
    /\ passes = 0
    /\ ret = Fail
    /\ before = 0
    /\ stack = <<>>
    /\ arg = <<>>
    /\ called = {}
    /\ order = <<>>
    /\ unit_i = 0
    /\ twins = <<>>
    /\ last = <<>>

EliminateCall ==
    /\ pc = "call"
    /\ other' = values
    /\ values' = eliminate(values)
    /\ passes' = passes + 1
    /\ pc' = IF passes' = 2 THEN "done" ELSE "call"
    /\ UNCHANGED <<input, ret, searchVars, order, before, twinVars>>

NextEliminate == EliminateCall

SpecEliminate == InitEliminate /\ [][NextEliminate]_vars

(***************************************************************************)
(* naked_twins, twin by twin                                               *)
(***************************************************************************)
InitTwins ==
    /\ input \in StrategyInputs
    /\ values = input
    /\ pc = "unit"
    /\ unit_i = 1
    /\ twins = <<>>
    /\ last = <<>>
    /\ ret = Fail
    /\ passes = 0
    /\ before = 0
    /\ stack = <<>>
    /\ arg = <<>>
    /\ called = {}
    /\ order = <<>>
    /\ other = <<>>

\* The outer loop reaches the next unit with twins and takes possible_twins
\* there, or ends: "return values".
TwinsScan ==
    /\ pc = "unit"
    /\ \E u \in {NextTwinUnit(values, unit_i)} :
        /\ unit_i' = u
        /\ IF u > Len(unitlist)
           THEN /\ twins' = <<>>
                /\ pc' = "done"
                /\ ret' = Ok(values)
           ELSE /\ twins' = TwinsOf(possible_twins(values, unitlist[u]))
                /\ pc' = "twin"
                /\ ret' = ret
    /\ UNCHANGED <<input, values, last, searchVars, orderVars, reduceVars>>

\* The body of "if possible_twins[i][1] == possible_twins[j][1]" for the
\* next twin of the unit.
TwinsEliminate ==
    /\ pc = "twin"
    /\ values' = TwinEliminate(values, unitlist[unit_i], Head(twins))
    /\ last' = [unit |-> unit_i, a |-> Head(twins).a, b |-> Head(twins).b,
                digits |-> Head(twins).digits]
    /\ twins' = Tail(twins)
    /\ IF Tail(twins) = <<>>
       THEN pc' = "unit" /\ unit_i' = unit_i + 1
       ELSE pc' = "twin" /\ unit_i' = unit_i
    /\ UNCHANGED <<input, ret, searchVars, orderVars, reduceVars>>

NextTwins == TwinsScan \/ TwinsEliminate

SpecTwins == InitTwins /\ [][NextTwins]_vars

(***************************************************************************)
(* eliminate and only_choice iterated to a fixpoint, in two visiting       *)
(* orders side by side                                                     *)
(***************************************************************************)
\* Visiting orders compared with the program's: the sequence reversed, and
\* the sequence rotated by 1..MaxRotate places.
MaxRotate == 1

Reverse(s) == [i \in 1..Len(s) |-> s[Len(s) + 1 - i]]

Rotate(s, k) == [i \in 1..Len(s) |-> s[((i - 1 + k) % Len(s)) + 1]]

OrdersOf(s) == {Reverse(s)} \cup {Rotate(s, k) : k \in 1..MaxRotate}

\* The orders of a run: the boxes for eliminate; the units or the digits
\* for only_choice.
Orders ==
    {[strategy |-> "eliminate", boxes |-> o, units |-> unitlist, digits |-> digits]
        : o \in OrdersOf(boxes)}
    \cup
    {[strategy |-> "only_choice", boxes |-> boxes, units |-> u, digits |-> digits]
        : u \in OrdersOf(unitlist)}
    \cup
    {[strategy |-> "only_choice", boxes |-> boxes, units |-> unitlist, digits |-> d]
        : d \in OrdersOf(digits)}

\* The dicts the orders are compared on: those of the grids, and those with
\* the first MaxNarrowOrders boxes narrowed.
MaxNarrowOrders == 4

OrdersInputs ==
    {grid2values(grid) : grid \in Grids}
        \cup NarrowedAt(SubSeq(boxes, 1, MaxNarrowOrders))

InitOrders ==
    /\ input \in OrdersInputs
    /\ order \in Orders
    /\ values = input
    /\ other = input
    /\ pc = "iterate"
    /\ passes = 0
    /\ ret = Fail
    /\ before = 0
    /\ stack = <<>>
    /\ arg = <<>>
    /\ called = {}
    /\ unit_i = 0
    /\ twins = <<>>
    /\ last = <<>>

\* One more call of the strategy on each dict: the program's loops on
\* values, the loops in the orders of `order` on other.  The iteration ends
\* with the call that changes neither.  last keeps the latest pair of
\* results in which the two orders differed.
OrdersPass ==
    /\ pc = "iterate"
    /\ \E v \in {IF order.strategy = "eliminate"
                 THEN eliminate(values) ELSE only_choice(values)} :
       \E o \in {IF order.strategy = "eliminate"
                 THEN EliminateIn(other, order.boxes, 1)
                 ELSE OnlyChoiceIn(other, order.units, order.digits, 1, 1)} :
        /\ values' = v
        /\ other' = o
        /\ pc' = IF v = values /\ o = other THEN "done" ELSE "iterate"
        /\ last' = IF v # o THEN <<v, o>> ELSE last
    /\ passes' = passes + 1
    /\ UNCHANGED <<input, ret, order, before, searchVars, unit_i, twins>>

NextOrders == OrdersPass

SpecOrders == InitOrders /\ [][NextOrders]_vars

(***************************************************************************)
(* The rules of diagonal Sudoku, for the statements about solve and search *)
(***************************************************************************)
\* The units of the rules: rows, columns, squares and both main diagonals.
RuleUnits == row_units \o column_units \o square_units \o diagonal_units

RulePeers ==
    Built([b \in BoxSet |->
              (UNION {SeqSet(RuleUnits[i]) :
                         i \in {j \in 1..Len(RuleUnits) : b \in SeqSet(RuleUnits[j])}})
              \ {b}])

\* The complete grids (box -> digit, 0 for a box not filled yet) that extend
\* g from box i on with no digit twice in a unit.
RECURSIVE Extend(_, _)
Extend(g, i) ==
    IF i > NumBoxes THEN {g}
    ELSE UNION { Extend([g EXCEPT ![boxes[i]] = d], i + 1) :
                    d \in {e \in Digits : \A p \in RulePeers[boxes[i]] : g[p] # e} }

\* Every grid in which each unit holds each digit exactly once.
AllSolutions == Extend(Built([b \in BoxSet |-> 0]), 1)

\* The solutions of a puzzle: the grids that agree with its dict of values.
SolutionsOf(v) == {g \in AllSolutions : \A b \in BoxSet : g[b] \in v[b]}

\* The dict of a complete grid.
AsValues(g) == [b \in BoxSet |-> {g[b]}]

\* Every box has one digit and every unit holds each digit exactly once.
Complete(v) ==
    /\ \A b \in BoxSet : len(v[b]) = 1
    /\ \A i \in 1..Len(RuleUnits) : \A d \in Digits :
           Cardinality({k \in 1..N : v[RuleUnits[i][k]] = {d}}) = 1

\* C1: whenever a call of search (and so solve) returns a dict rather than
\* False, every box of it has exactly one digit and every row, column,
\* square and main diagonal holds each digit exactly once.
C1_ReturnedGridComplete ==
    (pc \in {"return", "done"} /\ ret.ok) => Complete(ret.values)

\* A solution found below two pending calls is being returned.
C1_Witness ==
    /\ pc = "return"
    /\ ret.ok
    /\ Len(stack) >= 2
    /\ Complete(ret.values)

\* C2: a call of search on a puzzle with exactly one solution returns that
\* solution, in whichever order the choices of min_box are tried.
C2_UniqueSolutionReturned ==
    (pc = "return" /\ Cardinality(SolutionsOf(arg)) = 1)
        => /\ ret.ok
           /\ \A g \in SolutionsOf(arg) : ret.values = AsValues(g)

\* A call on a puzzle with one solution gets it from the last choice of its
\* min_box, after every other choice has failed.
C2_Witness ==
    /\ pc = "return"
    /\ ret.ok
    /\ stack # <<>>
    /\ Top.choices = {}
    /\ len(Top.values[Top.min_box]) >= 2
    /\ Cardinality(SolutionsOf(Top.arg)) = 1
    /\ order = "any"

\* C3: a call of search on a puzzle with no solution returns False, and a
\* call that returned False to a caller only ends that branch: the caller
\* goes on with the loop over its choices.
C3_NoSolutionFails ==
    [][ /\ (pc' = "return" /\ SolutionsOf(arg') = {}) => ~ret'.ok
        /\ (pc = "return" /\ ~ret.ok /\ stack # <<>>)
               => (pc' = "branch" /\ stack' = stack) ]_vars

\* The root call returns False after a failed child: a grid such as two
\* equal givens in a unit needs no search, two givens that only the search
\* finds contradictory do.
C3_Witness ==
    /\ pc = "return"
    /\ ~ret.ok
    /\ stack = <<>>
    /\ "search" \in called
    /\ SolutionsOf(input) = {}

\* C4: at every node of the search, naked_twins has been applied by the
\* time the branch box is selected.
C4_TwinsAppliedBeforeSelect ==
    pc = "select" => "naked_twins" \in called

(***************************************************************************)
(* Statements about reduce_puzzle                                          *)
(***************************************************************************)
\* C8: reduce_puzzle terminates on every dict; while it loops, the count of
\* solved boxes does not decrease from one pass to the next; the count is at
\* most the number of boxes (81 on the 9x9 board), and so is the number of
\* passes that went on looping.
C8_ReducerTerminates ==
    /\ <>(pc = "done")
    /\ [][pc' = "loop" => SolvedCount(values') >= SolvedCount(values)]_vars
    /\ [](SolvedCount(values) <= NumBoxes /\ passes <= NumBoxes + 1)

\* The loop goes on after a second pass that solved more boxes.
C8_Witness ==
    /\ pc = "loop"
    /\ passes >= 2
    /\ SolvedCount(values) > before

\* No two peers are solved with the same digit.
NoPeerClash(v) ==
    \A b \in BoxSet : \A p \in RulePeers[b] :
        (len(v[b]) = 1 /\ len(v[p]) = 1) => v[b] # v[p]

\* C9: a dict returned by reduce_puzzle is stabilized: eliminate and then
\* only choice change no box of it, no box is empty, and no two peers are
\* solved with the same digit.
C9_ReturnedStabilized ==
    (pc = "done" /\ ret.ok)
        => /\ only_choice(eliminate(ret.values)) = ret.values
           /\ ~HasEmpty(ret.values)
           /\ NoPeerClash(ret.values)

\* reduce_puzzle returned a dict after three passes or more, with boxes
\* still open.
C9_Witness ==
    /\ pc = "done"
    /\ ret.ok
    /\ passes >= 3
    /\ SolvedCount(ret.values) < NumBoxes

(***************************************************************************)
(* Statements about eliminate                                              *)
(***************************************************************************)
Solved(v) == {b \in BoxSet : len(v[b]) = 1}

\* C5 as stated: for every dict, a second call of eliminate changes nothing.
C5_EliminateIdempotent ==
    pc = "done" => values = other

\* C5: when the first call of eliminate leaves no box solved that was not
\* solved before it, a second call changes nothing.
C5_IdempotentWithoutNewSolved ==
    (pc = "done" /\ Solved(other) \subseteq Solved(input)) => values = other

\* The first call removed digits and solved no new box; the second call
\* changed nothing.
C5_Witness ==
    /\ pc = "done"
    /\ Solved(other) \subseteq Solved(input)
    /\ other # input
    /\ values = other

(***************************************************************************)
(* Statements about naked_twins                                            *)
(***************************************************************************)
\* The twins of the input: a unit and two of its boxes that hold the same
\* two digits in the dict naked_twins was called with.
InputTwins ==
    {t \in [unit : 1..Len(unitlist), a : BoxSet, b : BoxSet] :
        /\ t.a # t.b
        /\ {t.a, t.b} \subseteq SeqSet(unitlist[t.unit])
        /\ len(input[t.a]) = 2
        /\ input[t.a] = input[t.b]}

\* C6 as stated: after one call of naked_twins, both boxes of every twin of
\* the input still hold both digits.
C6_TwinsKeepDigits ==
    pc = "done" => \A t \in InputTwins :
                       values[t.a] = input[t.a] /\ values[t.b] = input[t.b]

\* C6: the removal done for a twin never changes either box of that twin.
C6_TwinUntouchedByOwnRemoval ==
    [][pc = "twin" => /\ values'[Head(twins).a] = values[Head(twins).a]
                      /\ values'[Head(twins).b] = values[Head(twins).b]]_vars

\* A twin has just been processed: a box of its unit lost a digit of the
\* twin, and both boxes of the twin hold the two digits.
C6_Witness ==
    /\ last # <<>>
    /\ values[last.a] = last.digits
    /\ values[last.b] = last.digits
    /\ \E box \in SeqSet(unitlist[last.unit]) \ {last.a, last.b} :
           /\ input[box] \cap last.digits # {}
           /\ values[box] \cap last.digits = {}

\* C7: after the call, for every twin of the input, no other box of its
\* unit holds either digit of the twin.
C7_AllInputTwinsProcessed ==
    pc = "done" => \A t \in InputTwins :
                       \A box \in SeqSet(unitlist[t.unit]) \ {t.a, t.b} :
                           values[box] \cap input[t.a] = {}

(***************************************************************************)
(* Statements about the visiting order                                     *)
(***************************************************************************)
\* C10 as stated: for every dict, the fixpoint of eliminate, and of
\* only_choice, is the same in every visiting order.
C10_SameFixpoint ==
    pc = "done" => values = other

\* The iteration met no contradiction: eliminate left no box empty;
\* only_choice left every digit a place in every unit.
NoContradiction(v) ==
    IF order.strategy = "eliminate"
    THEN ~HasEmpty(v)
    ELSE \A i \in 1..Len(unitlist) : \A d \in Digits :
             places_counter(v, unitlist[i], d) # <<>>

\* C10: when the fixpoint reached in the program's order shows no
\* contradiction, the fixpoint reached in the other order is the same.
C10_SameFixpointWithoutContradiction ==
    (pc = "done" /\ NoContradiction(values)) => values = other

\* The two orders gave different dicts after some call, and both iterations
\* ended in the same dict, which shows no contradiction.
C10_Witness ==
    /\ pc = "done"
    /\ last # <<>>
    /\ NoContradiction(values)
    /\ values = other

=============================================================================
